---------------------------- MODULE Spec2Model ----------------------------
(***************************************************************************)
(* Model of the still-frame subsystem of the YouTube scraper actor:        *)
(*   - pickTimestamps      (candidate selection, pure)                     *)
(*   - parseStoryboardSpec (storyboard spec decoder, pure)                 *)
(*   - findNearestTile, captureWithFfmpeg, captureFrames (fallback chain)  *)
(*   - fetchWithRetry      (HTTP fetch with retry and backoff)             *)
(*                                                                         *)
(* Conventions                                                             *)
(*   - JavaScript numbers are modelled by integers (seconds, pixels, ms).  *)
(*   - An optional field (x?: T) is a sequence of length <= 1: None when   *)
(*     the property is absent/undefined, Some(v) when it is set.           *)
(*   - Free text (titles, transcript text, labels) is a TLA+ string.       *)
(*   - Strings that the code splits, searches or tests for emptiness       *)
(*     (storyboard specs, URLs) are sequences of symbols; the empty        *)
(*     string is << >>.                                                    *)
(***************************************************************************)
EXTENDS Integers, Sequences, FiniteSets, TLC

VARIABLES
    \* ---- pickTimestamps: arguments, intermediate lists, return value ----
    durationSeconds, chapters, maxFrames, intervalSeconds, transcript,
    candidates, deduped, picked, pickPc,
    \* ---- parseStoryboardSpec: argument, return value ----
    spec, tiles, decodePc,
    \* ---- captureFrames: arguments, locals, position ----
    videoId, timestamps, storyboardSpec, storyboardTiles, frames, tsIndex,
    capturePc,
    \* ---- captureFrames: history (not program state) ----
    outcomes,     \* what happened inside each captureWithFfmpeg call so far
    resolvedBy,   \* which branch of the loop body pushed each frame
    inFlight,     \* captureWithFfmpeg calls started and not yet settled
    decodeCount,  \* parseStoryboardSpec calls made by captureFrames
    \* ---- fetchWithRetry: arguments, loop variable, position, completion ----
    maxRetries, baseDelayMs, attempt, fetchPc, fetchResult,
    \* ---- fetchWithRetry: history (not program state) ----
    fetchLog,     \* how each fetch(url, options) call settled, in order
    delays        \* the setTimeout delays waited so far, in order

pickVars == <<durationSeconds, chapters, maxFrames, intervalSeconds, transcript,
              candidates, deduped, picked, pickPc>>

decodeVars == <<spec, tiles, decodePc>>

captureVars == <<videoId, timestamps, storyboardSpec, storyboardTiles, frames, tsIndex,
                 capturePc, outcomes, resolvedBy, inFlight, decodeCount>>

fetchVars == <<maxRetries, baseDelayMs, attempt, fetchPc, fetchResult, fetchLog, delays>>

vars == <<pickVars, decodeVars, captureVars, fetchVars>>

(***************************************************************************)
(* Generic helpers                                                         *)
(***************************************************************************)
None == << >>
Some(v) == <<v>>

Min(a, b) == IF a <= b THEN a ELSE b
Max(a, b) == IF a >= b THEN a ELSE b
Abs(a) == IF a < 0 THEN -a ELSE a

\* Array.prototype.sort (stable, ascending).  cmp[i, j] is the comparator's
\* result on the elements at positions i and j of s.
SortBy(s, cmp) ==
    LET pos(i) == Cardinality({j \in 1..Len(s) :
                      \/ cmp[j, i] < 0
                      \/ (cmp[j, i] = 0 /\ j < i)}) + 1
    IN  [k \in 1..Len(s) |-> s[CHOOSE i \in 1..Len(s) : pos(i) = k]]

\* JavaScript's % (remainder): truncated division, sign of the dividend.
JsRem(a, b) == IF a >= 0 THEN a % Abs(b) ELSE -((-a) % Abs(b))

\* Math.floor(a / b) on integers, b # 0.
FloorDiv(a, b) ==
    LET q == Abs(a) \div Abs(b)
        exact == (Abs(a) % Abs(b)) = 0
    IN  IF (a >= 0) = (b > 0) THEN q
        ELSE IF exact THEN -q ELSE -q - 1

\* String(n).padStart(2, '0')
PadStart2(n) == IF n >= 0 /\ n <= 9 THEN "0" \o ToString(n) ELSE ToString(n)

formatTimestamp(totalSeconds) ==
    LET h == FloorDiv(totalSeconds, 3600)
        m == FloorDiv(JsRem(totalSeconds, 3600), 60)
        s == JsRem(totalSeconds, 60)
    IN  IF h > 0
        THEN ToString(h) \o ":" \o PadStart2(m) \o ":" \o PadStart2(s)
        ELSE ToString(m) \o ":" \o PadStart2(s)

(***************************************************************************)
(* pickTimestamps                                                          *)
(***************************************************************************)
\* The texts the transcript inputs are drawn from.  VISUAL_CUE_PATTERNS is a
\* list of case-insensitive substring patterns; on these texts the test
\* "some pattern matches" comes out as listed (all are shorter than the 80
\* and 200 character cuts applied to labels and contexts, which therefore
\* leave them whole).
CueTexts == {"As you can see here", "look at this chart"}
PlainTexts == {"hello and welcome", "thanks for watching"}

MatchesVisualCue(text) == text \in CueTexts

\* text.slice(0, n) on the texts above (each shorter than n).
Slice(text, n) == text

RECURSIVE getChapterAtFrom(_, _, _)
getChapterAtFrom(chs, seconds, current) ==
    IF chs = << >> THEN current
    ELSE IF Head(chs).startSeconds <= seconds
         THEN getChapterAtFrom(Tail(chs), seconds, Some(Head(chs).title))
         ELSE current

getChapterAt(chs, seconds) == getChapterAtFrom(chs, seconds, None)

RECURSIVE JoinTexts(_)
JoinTexts(segs) ==
    IF Len(segs) = 1 THEN segs[1].text
    ELSE segs[1].text \o " " \o JoinTexts(Tail(segs))

getTranscriptContext(segments, seconds) ==
    LET near(s) == s.startSeconds >= seconds - 5 /\ s.startSeconds <= seconds + 5
        nearby == SelectSeq(segments, near)
    IN  IF Len(nearby) = 0 THEN None ELSE Some(Slice(JoinTexts(nearby), 200))

\* Priority 1: visual cues in transcript (one candidate per matching segment).
RECURSIVE VisualCueCandidates(_, _)
VisualCueCandidates(tr, chs) ==
    IF tr = << >> THEN << >>
    ELSE LET seg == Head(tr)
         IN  (IF MatchesVisualCue(seg.text)
              THEN << [seconds |-> seg.startSeconds,
                       label |-> Slice(seg.text, 80),
                       relevance |-> "visual_cue",
                       priority |-> 1,
                       transcriptContext |-> Some(seg.text),
                       chapterTitle |-> getChapterAt(chs, seg.startSeconds)] >>
              ELSE << >>)
             \o VisualCueCandidates(Tail(tr), chs)

\* Mutant of ChapterTime: the 5-second offset is missing.
ChapterTimeNoOffset(ch, duration) == Min(ch.startSeconds, duration - 1)

\* Priority 2: chapter starts (offset by 5s).
ChapterTime(ch, duration) == Min(ch.startSeconds + 5, duration - 1)

\* Mutant of ChapterCandidates: chapter candidates are pushed with the
\* priority of the transition pass.
ChapterCandidatesTransitionPriority(chs, duration, tr) ==
    [k \in 1..Len(chs) |->
        LET t == ChapterTime(chs[k], duration)
        IN  [seconds |-> t,
             label |-> chs[k].title,
             relevance |-> "chapter_start",
             priority |-> 3,
             transcriptContext |-> getTranscriptContext(tr, t),
             chapterTitle |-> Some(chs[k].title)]]

ChapterCandidates(chs, duration, tr) ==
    [k \in 1..Len(chs) |->
        LET t == ChapterTime(chs[k], duration)
        IN  [seconds |-> t,
             label |-> chs[k].title,
             relevance |-> "chapter_start",
             priority |-> 2,
             transcriptContext |-> getTranscriptContext(tr, t),
             chapterTitle |-> Some(chs[k].title)]]

\* Mutant of IsTransition: the previous segment's duration is left out.
IsTransitionIgnoringDuration(prev, curr) ==
    curr.startSeconds - prev.startSeconds > 3

\* Mutant of IsTransition: a gap of exactly 3 seconds counts as well.
IsTransitionFromThree(prev, curr) ==
    curr.startSeconds - (prev.startSeconds + prev.durationSeconds) >= 3

\* Priority 3: topic transitions (>3s gaps in transcript).
IsTransition(prev, curr) ==
    curr.startSeconds - (prev.startSeconds + prev.durationSeconds) > 3

RECURSIVE TransitionCandidatesFrom(_, _, _)
TransitionCandidatesFrom(i, tr, chs) ==
    IF i > Len(tr) THEN << >>
    ELSE LET prev == tr[i - 1]
             curr == tr[i]
         IN  (IF IsTransition(prev, curr)
              THEN << [seconds |-> curr.startSeconds,
                       label |-> "Topic transition at "
                                   \o formatTimestamp(curr.startSeconds),
                       relevance |-> "topic_transition",
                       priority |-> 3,
                       transcriptContext |-> Some(curr.text),
                       chapterTitle |-> getChapterAt(chs, curr.startSeconds)] >>
              ELSE << >>)
             \o TransitionCandidatesFrom(i + 1, tr, chs)

TransitionCandidates(tr, chs) == TransitionCandidatesFrom(2, tr, chs)

\* Priority 4: interval fallback.
EffectiveInterval(interval) == Max(interval, 10)

\* Mutant of IntervalCandidatesFrom: the loop runs up to the end of the video
\* (t < durationSeconds) instead of stopping 5 seconds before it.
RECURSIVE IntervalCandidatesToTheEnd(_, _, _, _, _)
IntervalCandidatesToTheEnd(t, interval, duration, chs, tr) ==
    IF t < duration
    THEN << [seconds |-> t,
             label |-> "Frame at " \o formatTimestamp(t),
             relevance |-> "interval",
             priority |-> 4,
             transcriptContext |-> getTranscriptContext(tr, t),
             chapterTitle |-> getChapterAt(chs, t)] >>
         \o IntervalCandidatesToTheEnd(t + interval, interval, duration, chs, tr)
    ELSE << >>

RECURSIVE IntervalCandidatesFrom(_, _, _, _, _)
IntervalCandidatesFrom(t, interval, duration, chs, tr) ==
    IF t < duration - 5
    THEN << [seconds |-> t,
             label |-> "Frame at " \o formatTimestamp(t),
             relevance |-> "interval",
             priority |-> 4,
             transcriptContext |-> getTranscriptContext(tr, t),
             chapterTitle |-> getChapterAt(chs, t)] >>
         \o IntervalCandidatesFrom(t + interval, interval, duration, chs, tr)
    ELSE << >>

IntervalCandidates(interval, duration, chs, tr) ==
    IntervalCandidatesFrom(EffectiveInterval(interval), EffectiveInterval(interval),
                           duration, chs, tr)

\* The candidates array after the four passes, in push order.
GenerateCandidates(duration, chs, interval, tr) ==
    VisualCueCandidates(tr, chs)
      \o ChapterCandidates(chs, duration, tr)
      \o TransitionCandidates(tr, chs)
      \o IntervalCandidates(interval, duration, chs, tr)

\* (a, b) => a.priority - b.priority || a.seconds - b.seconds
ByPriorityThenSeconds(a, b) ==
    IF a.priority - b.priority # 0 THEN a.priority - b.priority
    ELSE a.seconds - b.seconds

\* (a, b) => a.seconds - b.seconds
BySeconds(a, b) == a.seconds - b.seconds

\* Mutant of TooClose: only the most recently kept element is compared.
TooCloseLastOnly(kept, c) ==
    kept # << >> /\ Abs(kept[Len(kept)].seconds - c.seconds) < 10

\* Mutant of TooClose: the radius is 15 seconds.
TooCloseWithinFifteen(kept, c) ==
    \E k \in 1..Len(kept) : Abs(kept[k].seconds - c.seconds) < 15

\* deduped.some((d) => Math.abs(d.seconds - c.seconds) < 10)
TooClose(kept, c) ==
    \E k \in 1..Len(kept) : Abs(kept[k].seconds - c.seconds) < 10

RECURSIVE KeepLoop(_, _)
KeepLoop(sorted, kept) ==
    IF sorted = << >> THEN kept
    ELSE IF TooClose(kept, Head(sorted))
         THEN KeepLoop(Tail(sorted), kept)
         ELSE KeepLoop(Tail(sorted), Append(kept, Head(sorted)))

\* Mutant of SortByPriority: the candidates are sorted by time only.
SortByPriorityTimeOnly(cands) ==
    SortBy(cands, [i, j \in 1..Len(cands) |-> BySeconds(cands[i], cands[j])])

\* candidates.sort((a, b) => a.priority - b.priority || a.seconds - b.seconds)
SortByPriority(cands) ==
    SortBy(cands, [i, j \in 1..Len(cands) |-> ByPriorityThenSeconds(cands[i], cands[j])])

\* deduped.sort((a, b) => a.seconds - b.seconds)
SortByTime(list) ==
    SortBy(list, [i, j \in 1..Len(list) |-> BySeconds(list[i], list[j])])

\* De-duplicate within 10s, keeping higher priority; then sort by time.
Dedupe(cands) == SortByTime(KeepLoop(SortByPriority(cands), << >>))

\* ---- IEEE 754 double arithmetic, as far as the sampling step needs it ----
\* A positive double is [bits, frac]: the binary digits of its significand,
\* most significant first, and the number of them after the binary point.
Significand == 53

RECURSIVE BitsOfNat(_)
BitsOfNat(n) == IF n = 0 THEN << >> ELSE Append(BitsOfNat(n \div 2), n % 2)

\* The number with binary digits b, most significant first: the upper half
\* shifted over the lower half.
RECURSIVE NatOfBits(_)
NatOfBits(b) ==
    IF Len(b) = 0 THEN 0
    ELSE IF Len(b) = 1 THEN b[1]
    ELSE LET half == Len(b) \div 2
         IN  NatOfBits(SubSeq(b, 1, Len(b) - half)) * 2^half
               + NatOfBits(SubSeq(b, Len(b) - half + 1, Len(b)))

\* The w lowest binary digits of n, most significant first.
PadBits(n, w) == [k \in 1..w |-> (n \div 2^(w - k)) % 2]

\* b without its leading zeros.
StripZeros(b) ==
    LET ones == { k \in 1..Len(b) : b[k] = 1 }
    IN  IF ones = {} THEN << >>
        ELSE SubSeq(b, CHOOSE k \in ones : \A j \in ones : k <= j, Len(b))

\* b + 1 in binary: the last 0 becomes 1 and the 1s after it become 0.
Increment(b) ==
    LET zeros == { k \in 1..Len(b) : b[k] = 0 }
        last == CHOOSE k \in zeros : \A j \in zeros : j <= k
    IN  IF zeros = {} THEN <<1>> \o [k \in 1..Len(b) |-> 0]
        ELSE [k \in 1..Len(b) |-> IF k < last THEN b[k] ELSE IF k = last THEN 1 ELSE 0]

\* 2^k mod m, by squaring.
RECURSIVE Pow2Mod(_, _)
Pow2Mod(k, m) ==
    IF k = 0 THEN 1 % m
    ELSE LET h == Pow2Mod(k \div 2, m)
         IN  (h * h * (IF k % 2 = 1 THEN 2 ELSE 1)) % m

\* Long division of r / m for 0 <= r < m: the remainder after k binary
\* digits of the quotient is (2^k * r) mod m, and digit k is the whole part of
\* twice the remainder before it, over m.
RemainderAfter(r, m, k) == (Pow2Mod(k, m) * r) % m

QuotientFrom(bits, r, m, n) ==
    [bits |-> bits \o [k \in 1..n |-> (2 * RemainderAfter(r, m, k - 1)) \div m],
     rem |-> RemainderAfter(r, m, n)]

\* c / m for integers c >= m >= 1: the quotient rounded to 53 significant
\* bits, to nearest, ties to even.
DoubleQuotient(c, m) ==
    LET whole == BitsOfNat(c \div m)
        frac == Significand - Len(whole)
        q == QuotientFrom(whole, c % m, m, frac)
        up == \/ 2 * q.rem > m
              \/ (2 * q.rem = m /\ q.bits[Significand] = 1)
    IN  [bits |-> IF up THEN Increment(q.bits) ELSE q.bits, frac |-> frac]

\* The multiplication works on groups of LimbBits binary digits.
LimbBits == 14

\* Group j of b, counted from the least significant end, as a number.
Limb(b, j) ==
    NatOfBits(SubSeq(b, Max(1, Len(b) - LimbBits * j + 1), Len(b) - LimbBits * (j - 1)))

\* i * b in binary, group by group from the least significant group j
\* upwards, with the carry into the next group.
RECURSIVE TimesFrom(_, _, _, _, _)
TimesFrom(b, j, i, carry, out) ==
    IF LimbBits * (j - 1) >= Len(b) THEN BitsOfNat(carry) \o out
    ELSE LET t == i * Limb(b, j) + carry
         IN  TimesFrom(b, j + 1, i, t \div 2^LimbBits,
                       PadBits(t % 2^LimbBits, LimbBits) \o out)

\* i * x for a small integer i >= 0: the exact product rounded to 53
\* significant bits, to nearest, ties to even.
DoubleTimes(i, x) ==
    LET exact == StripZeros(TimesFrom(x.bits, 1, i, 0, << >>))
        extra == Len(exact) - Significand
        kept == SubSeq(exact, 1, Significand)
        up == /\ exact[Significand + 1] = 1
              /\ \/ \E k \in (Significand + 2)..Len(exact) : exact[k] = 1
                 \/ kept[Significand] = 1
    IN  IF extra <= 0 THEN [bits |-> exact, frac |-> x.frac]
        ELSE [bits |-> IF up THEN Increment(kept) ELSE kept, frac |-> x.frac - extra]

\* Math.floor(x) for 0 <= x < 2^53.
MathFloor(x) == NatOfBits(SubSeq(x.bits, 1, Len(x.bits) - x.frac))

\* Number of iterations of "for (let i = 0; i < maxFrames; i++)".
SampleCount(max) == max

\* Mutant of EvenSample: the length test is off by one.
EvenSampleOffByOne(list, max) ==
    IF Len(list) > max + 1
    THEN LET step == DoubleQuotient(Len(list), max)
         IN  [k \in 1..SampleCount(max) |-> list[MathFloor(DoubleTimes(k - 1, step)) + 1]]
    ELSE list

\* Limit to maxFrames via even sampling: element Math.floor(i * step) for
\* step = length / maxFrames (0-based i, 1-based sequence index), in double
\* arithmetic as the code computes it.
EvenSample(list, max) ==
    IF Len(list) > max
    THEN LET step == DoubleQuotient(Len(list), max)
         IN  [k \in 1..SampleCount(max) |-> list[MathFloor(DoubleTimes(k - 1, step)) + 1]]
    ELSE list

pickTimestamps(duration, chs, max, interval, tr) ==
    EvenSample(Dedupe(GenerateCandidates(duration, chs, interval, tr)), max)

(***************************************************************************)
(* Strings as sequences of symbols (one symbol per character for the text  *)
(* the code splits and searches)                                           *)
(***************************************************************************)
\* str.split(delim) for a one-character delimiter; cur is the piece being read.
RECURSIVE SplitFrom(_, _, _)
SplitFrom(str, delim, cur) ==
    IF str = << >> THEN <<cur>>
    ELSE IF Head(str) = delim
         THEN <<cur>> \o SplitFrom(Tail(str), delim, << >>)
         ELSE SplitFrom(Tail(str), delim, Append(cur, Head(str)))

Split(str, delim) == SplitFrom(str, delim, << >>)

\* str.indexOf(sub) + 1: the first position where sub occurs, 0 when none.
IndexOf(str, sub) ==
    LET hits == { i \in 1..(Len(str) - Len(sub) + 1) :
                    SubSeq(str, i, i + Len(sub) - 1) = sub }
    IN  IF hits = {} THEN 0 ELSE CHOOSE i \in hits : \A j \in hits : i <= j

\* str.includes(sub)
Includes(str, sub) == IndexOf(str, sub) # 0

\* str.replace(pattern, rep) with a string pattern: the first occurrence only.
ReplaceFirst(str, pattern, rep) ==
    LET i == IndexOf(str, pattern)
    IN  IF i = 0 THEN str
        ELSE SubSeq(str, 1, i - 1) \o rep \o SubSeq(str, i + Len(pattern), Len(str))

DigitChars == <<"0", "1", "2", "3", "4", "5", "6", "7", "8", "9">>
IsDigit(c) == \E d \in 1..10 : DigitChars[d] = c
DigitValue(c) == (CHOOSE d \in 1..10 : DigitChars[d] = c) - 1
IsWhiteSpace(c) == c = " "

\* String(n) for an integer n.
RECURSIVE NatToStr(_)
NatToStr(n) ==
    IF n < 10 THEN <<DigitChars[n + 1]>>
    ELSE NatToStr(n \div 10) \o <<DigitChars[(n % 10) + 1]>>

IntToStr(n) == IF n < 0 THEN <<"-">> \o NatToStr(-n) ELSE NatToStr(n)

\* A JavaScript number that may be NaN.
NaN == [isNaN |-> TRUE, val |-> 0]
Num(v) == [isNaN |-> FALSE, val |-> v]

\* !n for a number: true for 0 and NaN.
Falsy(n) == n.isNaN \/ n.val = 0

RECURSIVE SkipWhiteSpace(_)
SkipWhiteSpace(str) ==
    IF str # << >> /\ IsWhiteSpace(Head(str)) THEN SkipWhiteSpace(Tail(str)) ELSE str

\* The value of the longest prefix of digits of str, read after acc; read
\* tells whether a digit was read.
RECURSIVE ReadDigits(_, _, _)
ReadDigits(str, acc, read) ==
    IF str # << >> /\ IsDigit(Head(str))
    THEN ReadDigits(Tail(str), 10 * acc + DigitValue(Head(str)), TRUE)
    ELSE IF read THEN Num(acc) ELSE NaN

\* parseInt(str, 10): leading white space, an optional sign, then the longest
\* prefix of decimal digits; NaN when there is no digit.
parseInt(str) ==
    LET t == SkipWhiteSpace(str)
        negative == t # << >> /\ Head(t) = "-"
        signed == t # << >> /\ Head(t) \in {"-", "+"}
        n == ReadDigits(IF signed THEN Tail(t) ELSE t, 0, FALSE)
    IN  IF n.isNaN THEN NaN ELSE IF negative THEN Num(-n.val) ELSE n

(***************************************************************************)
(* parseStoryboardSpec                                                     *)
(***************************************************************************)
\* parts[k] (0-based).  An index past the end reads undefined, which every
\* use below treats as it treats '' (falsy; parseInt gives NaN).
Field(parts, k) == IF k + 1 <= Len(parts) THEN parts[k + 1] ELSE << >>

\* if (levels.length < 2) return tiles;
TooFewLevels(levels) == Len(levels) < 2

\* Mutant of TooFewParts: the field count is tested against 7.
TooFewPartsOffByOne(parts) == Len(parts) < 7

\* if (parts.length < 8) return tiles;
TooFewParts(parts) == Len(parts) < 8

\* if (!width || !height || !count || !cols || !rows || !intervalMs) return tiles;
InvalidNumbers(width, height, count, cols, rows, intervalMs) ==
    \/ Falsy(width) \/ Falsy(height) \/ Falsy(count)
    \/ Falsy(cols) \/ Falsy(rows) \/ Falsy(intervalMs)

\* Replace $M with sheet index and append sigh.
TileUrl(levelUrl, sheetIndex, sigh) ==
    LET url == ReplaceFirst(levelUrl, <<"$", "M">>, IntToStr(sheetIndex))
    IN  IF sigh # << >> /\ ~ Includes(url, <<"s", "i", "g", "h", "=">>)
        THEN url \o (IF Includes(url, <<"?">>) THEN <<"&">> ELSE <<"?">>)
                 \o <<"s", "i", "g", "h", "=">> \o sigh
        ELSE url

\* Mutant of Tile: the position is not reduced modulo the tiles per sheet.
TileNoSheetWrap(i, levelUrl, width, height, cols, rows, intervalMs, sigh) ==
    LET tilesPerSheet == cols * rows
        sheetIndex == FloorDiv(i, tilesPerSheet)
        posInSheet == i
        col == JsRem(posInSheet, cols)
        row == FloorDiv(posInSheet, cols)
    IN  [url |-> TileUrl(levelUrl, sheetIndex, sigh),
         tileRect |-> [x |-> col * width, y |-> row * height, w |-> width, h |-> height],
         timestampMs |-> i * intervalMs]

\* The tile pushed in iteration i (0-based) of the loop.
Tile(i, levelUrl, width, height, cols, rows, intervalMs, sigh) ==
    LET tilesPerSheet == cols * rows
        sheetIndex == FloorDiv(i, tilesPerSheet)
        posInSheet == JsRem(i, tilesPerSheet)
        col == JsRem(posInSheet, cols)
        row == FloorDiv(posInSheet, cols)
    IN  [url |-> TileUrl(levelUrl, sheetIndex, sigh),
         tileRect |-> [x |-> col * width, y |-> row * height, w |-> width, h |-> height],
         timestampMs |-> i * intervalMs]

\* Mutant of parseStoryboardSpec: an empty signature of the last level is
\* replaced by the first level's, as is done for the URL.
parseStoryboardSpecFirstLevelSigh(specStr) ==
    LET levels == Split(specStr, "#")
    IN  IF TooFewLevels(levels) THEN << >>
        ELSE
        LET bestLevel == levels[Len(levels)]
            parts == Split(bestLevel, "|")
        IN  IF TooFewParts(parts) THEN << >>
            ELSE
            LET firstParts == Split(levels[1], "|")
                baseUrlRoot == Field(firstParts, 0)
                levelUrl == IF Field(parts, 0) # << >> THEN Field(parts, 0) ELSE baseUrlRoot
                width == parseInt(Field(parts, 1))
                height == parseInt(Field(parts, 2))
                count == parseInt(Field(parts, 3))
                cols == parseInt(Field(parts, 4))
                rows == parseInt(Field(parts, 5))
                intervalMs == parseInt(Field(parts, 6))
                sigh == IF Field(parts, 7) # << >> THEN Field(parts, 7)
                        ELSE Field(firstParts, 7)
            IN  IF InvalidNumbers(width, height, count, cols, rows, intervalMs)
                THEN << >>
                ELSE [k \in 1..count.val |->
                        Tile(k - 1, levelUrl, width.val, height.val, cols.val,
                             rows.val, intervalMs.val, sigh)]

parseStoryboardSpec(specStr) ==
    LET levels == Split(specStr, "#")
    IN  IF TooFewLevels(levels) THEN << >>
        ELSE
        LET bestLevel == levels[Len(levels)]
            parts == Split(bestLevel, "|")
        IN  IF TooFewParts(parts) THEN << >>
            ELSE
            LET baseUrlRoot == Field(Split(levels[1], "|"), 0)
                levelUrl == IF Field(parts, 0) # << >> THEN Field(parts, 0) ELSE baseUrlRoot
                width == parseInt(Field(parts, 1))
                height == parseInt(Field(parts, 2))
                count == parseInt(Field(parts, 3))
                cols == parseInt(Field(parts, 4))
                rows == parseInt(Field(parts, 5))
                intervalMs == parseInt(Field(parts, 6))
                sigh == Field(parts, 7)
            IN  IF InvalidNumbers(width, height, count, cols, rows, intervalMs)
                THEN << >>
                ELSE [k \in 1..count.val |->
                        Tile(k - 1, levelUrl, width.val, height.val, cols.val,
                             rows.val, intervalMs.val, sigh)]

(***************************************************************************)
(* findNearestTile, captureWithFfmpeg and the body of captureFrames' loop  *)
(***************************************************************************)
\* Mutant of NearestFrom: a tile at the same distance replaces the best so far.
RECURSIVE NearestFromLastWins(_, _, _, _)
NearestFromLastWins(tileSeq, from, targetMs, best) ==
    IF from > Len(tileSeq) THEN best
    ELSE IF Abs(tileSeq[from].timestampMs - targetMs) <= Abs(best.timestampMs - targetMs)
         THEN NearestFromLastWins(tileSeq, from + 1, targetMs, tileSeq[from])
         ELSE NearestFromLastWins(tileSeq, from + 1, targetMs, best)

\* The loop of findNearestTile over tiles[from..], keeping the best so far.
RECURSIVE NearestFrom(_, _, _, _)
NearestFrom(tileSeq, from, targetMs, best) ==
    IF from > Len(tileSeq) THEN best
    ELSE IF Abs(tileSeq[from].timestampMs - targetMs) < Abs(best.timestampMs - targetMs)
         THEN NearestFrom(tileSeq, from + 1, targetMs, tileSeq[from])
         ELSE NearestFrom(tileSeq, from + 1, targetMs, best)

\* null (None) for an empty tile list, else the nearest tile.
findNearestTile(tileSeq, seconds) ==
    IF Len(tileSeq) = 0 THEN None
    ELSE Some(NearestFrom(tileSeq, 1, seconds * 1000, tileSeq[1]))

\* What can happen inside one captureWithFfmpeg call, by the first step that
\* does not go through.
FfmpegOutcomes ==
    { "tool_missing",       \* execSync('yt-dlp ...') throws
      "empty_stream_url",   \* yt-dlp prints nothing
      "ffmpeg_fails",       \* execSync('ffmpeg ...') throws (error, timeout)
      "no_output_file",     \* existsSync(tmpFile) is false
      "kv_store_fails",     \* openKeyValueStore / setValue rejects
      "no_store_id",        \* APIFY_DEFAULT_KEY_VALUE_STORE_ID unset or ''
      "stored" }            \* every step goes through

StoreId == "kvs1"

\* `frame-${videoId}-${Math.floor(ts.seconds)}`
FrameKey(vid, seconds) == <<"frame-", vid, "-">> \o IntToStr(seconds)

Return(v) == [kind |-> "return", value |-> v]
Throw == [kind |-> "throw", value |-> None]

\* The try block of captureWithFfmpeg: its completion for a given outcome.
FfmpegTryBlock(vid, seconds, key, outcome) ==
    CASE outcome = "tool_missing" -> Throw
      [] outcome = "empty_stream_url" -> Return(None)
      [] outcome = "ffmpeg_fails" -> Throw
      [] outcome = "no_output_file" -> Return(None)
      [] outcome = "kv_store_fails" -> Throw
      [] outcome = "no_store_id" -> Return(None)
      [] outcome = "stored" ->
            Return(Some(<<"https://api.apify.com/v2/key-value-stores/", StoreId,
                          "/records/">> \o key))

\* captureWithFfmpeg: try { ... } catch { return null; }
captureWithFfmpeg(vid, seconds, key, outcome) ==
    LET r == FfmpegTryBlock(vid, seconds, key, outcome)
    IN  IF r.kind = "throw" THEN Return(None) ELSE r

\* Mutant of ExactAttempt: the extraction is run with no error handling at
\* either level.
ExactAttemptUnguarded(vid, seconds, key, outcome) ==
    FfmpegTryBlock(vid, seconds, key, outcome)

\* Fallback 1 of the loop body: try { captured = await captureWithFfmpeg(..) }
\* catch { }.  kind "throw" would leave captureFrames; "return" carries
\* captured (None for null / nothing captured).
ExactAttempt(vid, seconds, key, outcome) ==
    LET r == captureWithFfmpeg(vid, seconds, key, outcome)
    IN  IF r.kind = "throw" THEN Return(None) ELSE r

\* Mutant of BaseFrame: the transcript context is not carried over.
BaseFrameNoContext(ts) ==
    [timestampSeconds |-> ts.seconds,
     timestampFormatted |-> formatTimestamp(ts.seconds),
     label |-> ts.label,
     transcriptContext |-> None,
     chapterTitle |-> ts.chapterTitle,
     relevance |-> ts.relevance]

\* base: Omit<StillFrame, 'imageUrl'>
BaseFrame(ts) ==
    [timestampSeconds |-> ts.seconds,
     timestampFormatted |-> formatTimestamp(ts.seconds),
     label |-> ts.label,
     transcriptContext |-> ts.transcriptContext,
     chapterTitle |-> ts.chapterTitle,
     relevance |-> ts.relevance]

\* { ...base, imageUrl, tileRect?, isFallback? }
Frame(base, imageUrl, tileRect, isFallback) ==
    [timestampSeconds |-> base.timestampSeconds,
     timestampFormatted |-> base.timestampFormatted,
     label |-> base.label,
     transcriptContext |-> base.transcriptContext,
     chapterTitle |-> base.chapterTitle,
     relevance |-> base.relevance,
     imageUrl |-> imageUrl,
     tileRect |-> tileRect,
     isFallback |-> isFallback]

\* https://i.ytimg.com/vi/${videoId}/hqdefault.jpg
ThumbnailUrl(vid) == <<"https://i.ytimg.com/vi/", vid, "/hqdefault.jpg">>

\* Mutant of LoopBodyPushes: the continue after the ffmpeg push is missing.
LoopBodyPushesNoContinue(vid, ts, captured, tileSeq) ==
    LET base == BaseFrame(ts)
        tile == findNearestTile(tileSeq, ts.seconds)
    IN  (IF captured # None
         THEN << [tier |-> "ffmpeg", frame |-> Frame(base, captured[1], None, None)] >>
         ELSE << >>)
        \o (IF tile # None
            THEN << [tier |-> "storyboard",
                     frame |-> Frame(base, tile[1].url, Some(tile[1].tileRect), None)] >>
            ELSE << [tier |-> "thumbnail",
                     frame |-> Frame(base, ThumbnailUrl(vid), None, None)] >>)

\* Mutant of LoopBodyPushes: the tile is looked up first and its rectangle is
\* attached to the extracted frame as well.
LoopBodyPushesRectOnExact(vid, ts, captured, tileSeq) ==
    LET base == BaseFrame(ts)
        tile == findNearestTile(tileSeq, ts.seconds)
        rect == IF tile # None THEN Some(tile[1].tileRect) ELSE None
    IN  IF captured # None
        THEN << [tier |-> "ffmpeg", frame |-> Frame(base, captured[1], rect, None)] >>
        ELSE IF tile # None
        THEN << [tier |-> "storyboard",
                 frame |-> Frame(base, tile[1].url, Some(tile[1].tileRect), None)] >>
        ELSE << [tier |-> "thumbnail",
                 frame |-> Frame(base, ThumbnailUrl(vid), None, None)] >>

\* Mutant of LoopBodyPushes: the storyboard tile is tried before the result
\* of the extraction is looked at.
LoopBodyPushesStoryboardFirst(vid, ts, captured, tileSeq) ==
    LET base == BaseFrame(ts)
        tile == findNearestTile(tileSeq, ts.seconds)
    IN  IF tile # None
        THEN << [tier |-> "storyboard",
                 frame |-> Frame(base, tile[1].url, Some(tile[1].tileRect), None)] >>
        ELSE IF captured # None
        THEN << [tier |-> "ffmpeg", frame |-> Frame(base, captured[1], None, None)] >>
        ELSE << [tier |-> "thumbnail",
                 frame |-> Frame(base, ThumbnailUrl(vid), None, None)] >>

\* The frames.push calls of one loop iteration after the ffmpeg attempt has
\* settled with captured, each with the branch that made it.
LoopBodyPushes(vid, ts, captured, tileSeq) ==
    LET base == BaseFrame(ts)
        tile == findNearestTile(tileSeq, ts.seconds)
    IN  IF captured # None
        THEN << [tier |-> "ffmpeg", frame |-> Frame(base, captured[1], None, None)] >>
        ELSE IF tile # None
        THEN << [tier |-> "storyboard",
                 frame |-> Frame(base, tile[1].url, Some(tile[1].tileRect), None)] >>
        ELSE << [tier |-> "thumbnail",
                 frame |-> Frame(base, ThumbnailUrl(vid), None, None)] >>

(***************************************************************************)
(* Inputs of pickTimestamps                                                *)
(***************************************************************************)
MaxChapters == 2
MaxSegments == 2
MaxFramesInput == 3

\* Ascending sequences (the callers pass chapters and transcript ordered by
\* startSeconds) of at most n elements of S.
AscendingSeqs(S, n) ==
    UNION { { q \in [1..len -> S] :
                \A k \in 1..(len - 1) : q[k].startSeconds < q[k + 1].startSeconds }
            : len \in 0..n }

Durations == {0, 8, 27, 40}
IntervalInputs == {5, 15}

ChapterInputs ==
    { [title |-> "Intro", startSeconds |-> 0],
      [title |-> "Body", startSeconds |-> 12],
      [title |-> "Outro", startSeconds |-> 38] }

SegmentInputs ==
    { [text |-> t, startSeconds |-> st, durationSeconds |-> d] :
        t \in {"look at this chart", "hello and welcome"},
        st \in {0, 6, 18, 30}, d \in {2, 5} }

PickIdle ==
    /\ durationSeconds = 0
    /\ chapters = << >>
    /\ maxFrames = 0
    /\ intervalSeconds = 0
    /\ transcript = << >>
    /\ candidates = << >>
    /\ deduped = << >>
    /\ picked = << >>
    /\ pickPc = "idle"

PickInit ==
    /\ durationSeconds \in Durations
    /\ chapters \in AscendingSeqs(ChapterInputs, MaxChapters)
    /\ maxFrames \in 0..MaxFramesInput
    /\ intervalSeconds \in IntervalInputs
    /\ transcript \in AscendingSeqs(SegmentInputs, MaxSegments)
    /\ candidates = << >>
    /\ deduped = << >>
    /\ picked = << >>
    /\ pickPc = "call"

\* One call of pickTimestamps; candidates and deduped record the function's
\* local arrays of the same names, picked its return value.
PickTimestamps ==
    /\ pickPc = "call"
    /\ candidates' = GenerateCandidates(durationSeconds, chapters, intervalSeconds,
                                        transcript)
    /\ deduped' = Dedupe(candidates')
    /\ picked' = pickTimestamps(durationSeconds, chapters, maxFrames,
                                intervalSeconds, transcript)
    /\ pickPc' = "done"
    /\ UNCHANGED <<durationSeconds, chapters, maxFrames, intervalSeconds, transcript>>
    /\ UNCHANGED <<decodeVars, captureVars, fetchVars>>

\* A second family of arguments: longer videos, the actor's default interval
\* and frame budget (maxFrames 10, interval 60), durations on both sides of
\* the effective intervals 10, 15 and 60, and transcript gaps of exactly 3 and
\* exactly 5 seconds.
MaxFramesScenario == 10

\* <<durationSeconds, intervalSeconds>>
ScenarioTimings ==
    ({8, 12, 15, 16, 21} \X {5, 15, 60}) \cup {<<630, 60>>, <<630, 120>>}

ScenarioChapters ==
    { [title |-> "Intro", startSeconds |-> 0],
      [title |-> "Body", startSeconds |-> 300] }

ScenarioSegments ==
    { [text |-> t, startSeconds |-> st, durationSeconds |-> d] :
        t \in {"As you can see here", "thanks for watching"},
        st \in {0, 8}, d \in {3, 5} }

PickScenarioInit ==
    /\ \E timing \in ScenarioTimings :
          /\ durationSeconds = timing[1]
          /\ intervalSeconds = timing[2]
    /\ chapters \in AscendingSeqs(ScenarioChapters, MaxChapters)
    /\ maxFrames \in 0..MaxFramesScenario
    /\ transcript \in AscendingSeqs(ScenarioSegments, MaxSegments)
    /\ candidates = << >>
    /\ deduped = << >>
    /\ picked = << >>
    /\ pickPc = "call"

\* A third family of arguments: videos with neither chapters nor transcript
\* and interval 10, which give one interval candidate every 10 seconds, as
\* many as MaxDeduped, and frame budgets up to MaxFramesSample.
MaxDeduped == 31
MaxFramesSample == 23

PickSampleInit ==
    /\ \E count \in 0..MaxDeduped : durationSeconds = 10 * count + 6
    /\ chapters = << >>
    /\ maxFrames \in 0..MaxFramesSample
    /\ intervalSeconds = 10
    /\ transcript = << >>
    /\ candidates = << >>
    /\ deduped = << >>
    /\ picked = << >>
    /\ pickPc = "call"

(***************************************************************************)
(* Inputs of parseStoryboardSpec                                           *)
(***************************************************************************)
\* Pieces joined by a delimiter symbol: the inverse of Split.
RECURSIVE Join(_, _)
Join(pieces, delim) ==
    IF Len(pieces) = 1 THEN pieces[1]
    ELSE pieces[1] \o <<delim>> \o Join(Tail(pieces), delim)

UrlFields ==
    { << >>,
      <<"u", "$", "M">>,
      <<"u", "?", "k", "$", "M">>,
      <<"u", "?", "s", "i", "g", "h", "=", "z">> }

WidthFields == { <<"4">>, <<"0">>, <<"-", "4">>, <<"x">> }
HeightFields == { <<"3">>, <<"-", "3">>, << >> }
CountFields == { <<"4">>, <<"5">>, <<"0">>, <<"-", "1">> }
ColsFields == { <<"2">>, <<"-", "2">>, <<"0">> }
RowsFields == { <<"2">>, <<"1">>, <<"-", "1">>, <<"n">> }
IntervalFields ==
    { <<"5", "0", "0", "0">>, <<"1", "0", "0", "0">>, <<" ", "9", "m", "s">>, <<"0">>,
      <<"-", "5">> }
SighFields == { << >>, <<"r", "s">> }

\* A level record of 8 fields, and the same cut to 7 or extended to 9.
FullLevels ==
    { <<u, w, h, n, c, r, iv, sg>> :
        u \in UrlFields, w \in WidthFields, h \in HeightFields, n \in CountFields,
        c \in ColsFields, r \in RowsFields, iv \in IntervalFields, sg \in SighFields }

ValidLevel == << <<"u", "$", "M">>, <<"4">>, <<"3">>, <<"4">>, <<"2">>, <<"2">>,
                 <<"5", "0", "0", "0">>, <<"r", "s">> >>

OddLevels ==
    { SubSeq(ValidLevel, 1, 7), ValidLevel \o << <<"e">> >>, << << >> >>,
      << <<"o", "n", "l", "y">> >> }

FirstLevels ==
    { << << >> >>,
      << <<"b", "$", "M">>, <<"1">>, <<"1">>, <<"9">>, <<"1">>, <<"1">>, <<"7">>, <<"q">> >>,
      << <<"b", "?", "$", "M">>, <<"x">> >> }

\* Spec strings: a single level, or a first level followed by the level that
\* is decoded, or three levels.
SpecInputs ==
    { Join(l, "|") : l \in OddLevels \cup {ValidLevel} }
    \cup { Join(<<Join(f, "|"), Join(l, "|")>>, "#") :
             f \in FirstLevels, l \in FullLevels \cup OddLevels }
    \cup { Join(<<Join(f, "|"), Join(ValidLevel, "|"), Join(l, "|")>>, "#") :
             f \in FirstLevels, l \in OddLevels \cup {ValidLevel} }

DecodeIdle ==
    /\ spec = << >>
    /\ tiles = << >>
    /\ decodePc = "idle"

DecodeInit ==
    /\ spec \in SpecInputs
    /\ tiles = << >>
    /\ decodePc = "call"

\* One call of parseStoryboardSpec.
ParseStoryboardSpec ==
    /\ decodePc = "call"
    /\ tiles' = parseStoryboardSpec(spec)
    /\ decodePc' = "done"
    /\ UNCHANGED spec
    /\ UNCHANGED <<pickVars, captureVars, fetchVars>>

(***************************************************************************)
(* captureFrames                                                           *)
(***************************************************************************)
MaxTimestamps == 2

VideoIds == {"dQw4w9WgXcQ", "a1b2c3d4e5f"}

\* Candidates of the shape pickTimestamps returns.
CandidateInputs ==
    { [seconds |-> 3, label |-> "Intro", relevance |-> "chapter_start", priority |-> 2,
       transcriptContext |-> None, chapterTitle |-> Some("Intro")],
      [seconds |-> 12, label |-> "look at this chart", relevance |-> "visual_cue",
       priority |-> 1, transcriptContext |-> Some("look at this chart"),
       chapterTitle |-> None],
      [seconds |-> 20, label |-> "Frame at 0:20", relevance |-> "interval", priority |-> 4,
       transcriptContext |-> Some("hello and welcome"), chapterTitle |-> Some("Intro")] }

TimestampLists == UNION { [1..len -> CandidateInputs] : len \in 0..MaxTimestamps }

TwoSecondLevel(url, width, sigh) ==
    <<url, width, <<"3">>, <<"4">>, <<"2">>, <<"2">>, <<"2", "0", "0", "0">>, sigh>>

\* storyboardSpec: null (None), '', a single level, a level cut short, and
\* two-level specs with tiles every 2 s: complete, with a negative width, and
\* with empty URL fields and an empty signature.
StoryboardSpecInputs ==
    { None,
      Some(<< >>),
      Some(<<"o", "n", "l", "y">>),
      Some(Join(<< <<"b">>, Join(SubSeq(ValidLevel, 1, 7), "|") >>, "#")),
      Some(Join(<< <<"b", "$", "M">>,
                   Join(TwoSecondLevel(<<"u", "$", "M">>, <<"4">>, <<"r", "s">>), "|") >>, "#")),
      Some(Join(<< <<"b", "$", "M">>,
                   Join(TwoSecondLevel(<<"u", "$", "M">>, <<"-", "4">>, <<"r", "s">>), "|") >>, "#")),
      Some(Join(<< << >>, Join(TwoSecondLevel(<< >>, <<"4">>, << >>), "|") >>, "#")) }

CaptureIdle ==
    /\ videoId = ""
    /\ timestamps = << >>
    /\ storyboardSpec = None
    /\ storyboardTiles = << >>
    /\ frames = << >>
    /\ tsIndex = 0
    /\ capturePc = "idle"
    /\ outcomes = << >>
    /\ resolvedBy = << >>
    /\ inFlight = 0
    /\ decodeCount = 0

CaptureInit ==
    /\ videoId \in VideoIds
    /\ timestamps \in TimestampLists
    /\ storyboardSpec \in StoryboardSpecInputs
    /\ storyboardTiles = << >>
    /\ frames = << >>
    /\ tsIndex = 0
    /\ capturePc = "call"
    /\ outcomes = << >>
    /\ resolvedBy = << >>
    /\ inFlight = 0
    /\ decodeCount = 0

\* storyboardSpec ? parseStoryboardSpec(storyboardSpec) : []
\* (null, undefined and '' are falsy)
SpecIsTruthy(sb) == sb # None /\ sb[1] # << >>

\* Entry of captureFrames up to the loop: frames = [], the tiles are decoded.
CaptureStart ==
    /\ capturePc = "call"
    /\ frames' = << >>
    /\ storyboardTiles' = IF SpecIsTruthy(storyboardSpec)
                          THEN parseStoryboardSpec(storyboardSpec[1])
                          ELSE << >>
    /\ decodeCount' = IF SpecIsTruthy(storyboardSpec) THEN decodeCount + 1 ELSE decodeCount
    /\ tsIndex' = 1
    /\ capturePc' = "loop"
    /\ UNCHANGED <<videoId, timestamps, storyboardSpec, outcomes, resolvedBy, inFlight>>
    /\ UNCHANGED <<pickVars, decodeVars, fetchVars>>

\* Mutant of CallFfmpeg: the attempts of all candidates are started together
\* when the loop is entered.
CallFfmpegAllAtOnce ==
    /\ capturePc = "loop"
    /\ tsIndex <= Len(timestamps)
    /\ capturePc' = "awaiting"
    /\ inFlight' = IF tsIndex = 1 THEN Len(timestamps) ELSE inFlight
    /\ UNCHANGED <<videoId, timestamps, storyboardSpec, storyboardTiles, frames, tsIndex,
                   outcomes, resolvedBy, decodeCount>>
    /\ UNCHANGED <<pickVars, decodeVars, fetchVars>>

\* Next iteration of "for (const ts of timestamps)": captureWithFfmpeg is
\* called and captureFrames waits for it.
CallFfmpeg ==
    /\ capturePc = "loop"
    /\ tsIndex <= Len(timestamps)
    /\ capturePc' = "awaiting"
    /\ inFlight' = inFlight + 1
    /\ UNCHANGED <<videoId, timestamps, storyboardSpec, storyboardTiles, frames, tsIndex,
                   outcomes, resolvedBy, decodeCount>>
    /\ UNCHANGED <<pickVars, decodeVars, fetchVars>>

\* Mutant of FfmpegSettles: the spec is decoded again inside the loop body,
\* for each candidate.
FfmpegSettlesRedecoding ==
    /\ capturePc = "awaiting"
    /\ \E outcome \in FfmpegOutcomes :
        LET ts == timestamps[tsIndex]
            key == FrameKey(videoId, ts.seconds)
            exact == ExactAttempt(videoId, ts.seconds, key, outcome)
            decoded == IF SpecIsTruthy(storyboardSpec)
                       THEN parseStoryboardSpec(storyboardSpec[1])
                       ELSE << >>
            pushes == LoopBodyPushes(videoId, ts, exact.value, decoded)
        IN  /\ outcomes' = Append(outcomes, outcome)
            /\ inFlight' = inFlight - 1
            /\ storyboardTiles' = decoded
            /\ decodeCount' = IF SpecIsTruthy(storyboardSpec)
                              THEN decodeCount + 1 ELSE decodeCount
            /\ IF exact.kind = "throw"
               THEN /\ capturePc' = "threw"
                    /\ UNCHANGED <<frames, resolvedBy, tsIndex>>
               ELSE /\ frames' = frames \o [k \in 1..Len(pushes) |-> pushes[k].frame]
                    /\ resolvedBy' = resolvedBy \o [k \in 1..Len(pushes) |-> pushes[k].tier]
                    /\ tsIndex' = tsIndex + 1
                    /\ capturePc' = "loop"
    /\ UNCHANGED <<videoId, timestamps, storyboardSpec>>
    /\ UNCHANGED <<pickVars, decodeVars, fetchVars>>

\* The awaited call settles and the rest of the loop body runs: the frame is
\* pushed by the first tier that has something.
FfmpegSettles ==
    /\ capturePc = "awaiting"
    /\ \E outcome \in FfmpegOutcomes :
        LET ts == timestamps[tsIndex]
            key == FrameKey(videoId, ts.seconds)
            exact == ExactAttempt(videoId, ts.seconds, key, outcome)
            pushes == LoopBodyPushes(videoId, ts, exact.value, storyboardTiles)
        IN  /\ outcomes' = Append(outcomes, outcome)
            /\ inFlight' = inFlight - 1
            /\ IF exact.kind = "throw"
               THEN /\ capturePc' = "threw"
                    /\ UNCHANGED <<frames, resolvedBy, tsIndex>>
               ELSE /\ frames' = frames \o [k \in 1..Len(pushes) |-> pushes[k].frame]
                    /\ resolvedBy' = resolvedBy \o [k \in 1..Len(pushes) |-> pushes[k].tier]
                    /\ tsIndex' = tsIndex + 1
                    /\ capturePc' = "loop"
    /\ UNCHANGED <<videoId, timestamps, storyboardSpec, storyboardTiles, decodeCount>>
    /\ UNCHANGED <<pickVars, decodeVars, fetchVars>>

\* The loop is over: return frames.
CaptureReturn ==
    /\ capturePc = "loop"
    /\ tsIndex > Len(timestamps)
    /\ capturePc' = "done"
    /\ UNCHANGED <<videoId, timestamps, storyboardSpec, storyboardTiles, frames, tsIndex,
                   outcomes, resolvedBy, inFlight, decodeCount>>
    /\ UNCHANGED <<pickVars, decodeVars, fetchVars>>

(***************************************************************************)
(* captureFrames of src/frames.ts: two tiers, no storyboard                *)
(***************************************************************************)
\* Fallback thumbnail suffixes to cycle through
FALLBACK_THUMBS == <<"0.jpg", "1.jpg", "2.jpg", "3.jpg">>

\* `https://i.ytimg.com/vi/${videoId}/${thumbSuffix}` for loop index i
CycledThumbnailUrl(vid, i) ==
    <<"https://i.ytimg.com/vi/", vid, "/", FALLBACK_THUMBS[(i % Len(FALLBACK_THUMBS)) + 1]>>

\* The object literals pushed by the loop; isFallback is absent (None) on the
\* extracted frame.
FrameTs(ts, imageUrl, isFallback) ==
    [timestampSeconds |-> ts.seconds,
     timestampFormatted |-> formatTimestamp(ts.seconds),
     label |-> ts.label,
     imageUrl |-> imageUrl,
     isFallback |-> isFallback]

\* captureFrames(videoId, timestamps): there is no storyboard argument.
CaptureTsInit ==
    /\ videoId \in VideoIds
    /\ timestamps \in TimestampLists
    /\ storyboardSpec = None
    /\ storyboardTiles = << >>
    /\ frames = << >>
    /\ tsIndex = 0
    /\ capturePc = "call"
    /\ outcomes = << >>
    /\ resolvedBy = << >>
    /\ inFlight = 0
    /\ decodeCount = 0

\* const frames = []; i = 0 (tsIndex is i + 1)
CaptureTsStart ==
    /\ capturePc = "call"
    /\ frames' = << >>
    /\ tsIndex' = 1
    /\ capturePc' = "loop"
    /\ UNCHANGED <<videoId, timestamps, storyboardSpec, storyboardTiles, outcomes,
                   resolvedBy, inFlight, decodeCount>>
    /\ UNCHANGED <<pickVars, decodeVars, fetchVars>>

\* i < timestamps.length: captureWithFfmpeg is called and awaited.
CallFfmpegTs ==
    /\ capturePc = "loop"
    /\ tsIndex <= Len(timestamps)
    /\ capturePc' = "awaiting"
    /\ inFlight' = inFlight + 1
    /\ UNCHANGED <<videoId, timestamps, storyboardSpec, storyboardTiles, frames, tsIndex,
                   outcomes, resolvedBy, decodeCount>>
    /\ UNCHANGED <<pickVars, decodeVars, fetchVars>>

\* The awaited call settles: the extracted frame is pushed, or else the
\* thumbnail chosen by the loop index; i++.
FfmpegSettlesTs ==
    /\ capturePc = "awaiting"
    /\ \E outcome \in FfmpegOutcomes :
        LET ts == timestamps[tsIndex]
            key == FrameKey(videoId, ts.seconds)
            captured == captureWithFfmpeg(videoId, ts.seconds, key, outcome).value
        IN  /\ outcomes' = Append(outcomes, outcome)
            /\ inFlight' = inFlight - 1
            /\ IF captured # None
               THEN /\ frames' = Append(frames, FrameTs(ts, captured[1], None))
                    /\ resolvedBy' = Append(resolvedBy, "ffmpeg")
               ELSE /\ frames' = Append(frames,
                                    FrameTs(ts, CycledThumbnailUrl(videoId, tsIndex - 1),
                                            Some(TRUE)))
                    /\ resolvedBy' = Append(resolvedBy, "thumbnail")
            /\ tsIndex' = tsIndex + 1
            /\ capturePc' = "loop"
    /\ UNCHANGED <<videoId, timestamps, storyboardSpec, storyboardTiles, decodeCount>>
    /\ UNCHANGED <<pickVars, decodeVars, fetchVars>>

\* i = timestamps.length: return frames.
CaptureTsReturn ==
    /\ capturePc = "loop"
    /\ tsIndex > Len(timestamps)
    /\ capturePc' = "done"
    /\ UNCHANGED <<videoId, timestamps, storyboardSpec, storyboardTiles, frames, tsIndex,
                   outcomes, resolvedBy, inFlight, decodeCount>>
    /\ UNCHANGED <<pickVars, decodeVars, fetchVars>>

(***************************************************************************)
(* fetchWithRetry                                                          *)
(***************************************************************************)
MaxRetriesInput == 3

RECURSIVE Pow2(_)
Pow2(n) == IF n = 0 THEN 1 ELSE 2 * Pow2(n - 1)

\* How one fetch(url, options) call can settle: a Response with a status, or
\* a rejection (network error); status is not read for a rejection.
FetchError == [kind |-> "error", status |-> 0]
Response(status) == [kind |-> "response", status |-> status]

Statuses == {200, 204, 302, 400, 403, 404, 429, 500, 503}

FetchOutcomes == { Response(st) : st \in Statuses } \cup {FetchError}

\* Response.ok
Ok(res) == res.status >= 200 /\ res.status <= 299

\* res.ok || res.status === 404 || res.status === 403
ReturnedAtOnce(res) == Ok(res) \/ res.status = 404 \/ res.status = 403

\* Mutant of RetryableStatus: every status from 400 on is retried.
RetryableStatusFrom400(res) == res.status >= 400

\* res.status === 429 || res.status >= 500
RetryableStatus(res) == res.status = 429 \/ res.status >= 500

\* Mutant of Delay: the delay grows linearly with the attempt.
DelayLinear(base, n) == base * (n + 1)

\* baseDelayMs * Math.pow(2, attempt)
Delay(base, n) == base * Pow2(n)

FetchIdle ==
    /\ maxRetries = 0
    /\ baseDelayMs = 0
    /\ attempt = 0
    /\ fetchPc = "idle"
    /\ fetchResult = None
    /\ fetchLog = << >>
    /\ delays = << >>

\* Entry of fetchWithRetry: attempt = 0, before the loop test.
FetchInit ==
    /\ maxRetries \in 0..MaxRetriesInput
    /\ baseDelayMs \in {1000, 250}
    /\ attempt = 0
    /\ fetchPc = "loop"
    /\ fetchResult = None
    /\ fetchLog = << >>
    /\ delays = << >>

\* attempt <= maxRetries: fetch(url, options) is called and awaited.
CallFetch ==
    /\ fetchPc = "loop"
    /\ attempt <= maxRetries
    /\ fetchPc' = "awaiting"
    /\ UNCHANGED <<maxRetries, baseDelayMs, attempt, fetchResult, fetchLog, delays>>
    /\ UNCHANGED <<pickVars, decodeVars, captureVars>>

\* The loop test fails (the statement after the loop would be reached).
LoopTestFails == fetchPc = "loop" /\ attempt > maxRetries

\* The awaited fetch settles; the try body or the catch clause runs up to the
\* return, the throw or the await of the delay.
FetchSettles ==
    /\ fetchPc = "awaiting"
    /\ \E outcome \in FetchOutcomes :
        /\ fetchLog' = Append(fetchLog, outcome)
        /\ IF outcome.kind = "response"
           THEN IF ReturnedAtOnce(outcome)
                THEN /\ fetchPc' = "returned"
                     /\ fetchResult' = Some([kind |-> "return", value |-> outcome])
                     /\ UNCHANGED delays
                ELSE IF attempt < maxRetries /\ RetryableStatus(outcome)
                THEN /\ fetchPc' = "delay"
                     /\ delays' = Append(delays, Delay(baseDelayMs, attempt))
                     /\ UNCHANGED fetchResult
                ELSE /\ fetchPc' = "returned"
                     /\ fetchResult' = Some([kind |-> "return", value |-> outcome])
                     /\ UNCHANGED delays
           ELSE IF attempt < maxRetries
                THEN /\ fetchPc' = "delay"
                     /\ delays' = Append(delays, Delay(baseDelayMs, attempt))
                     /\ UNCHANGED fetchResult
                ELSE /\ fetchPc' = "threw"
                     /\ fetchResult' = Some([kind |-> "throw", value |-> outcome])
                     /\ UNCHANGED delays
    /\ UNCHANGED <<maxRetries, baseDelayMs, attempt>>
    /\ UNCHANGED <<pickVars, decodeVars, captureVars>>

\* The timer fires: continue, attempt++, back to the loop test.
TimerFires ==
    /\ fetchPc = "delay"
    /\ attempt' = attempt + 1
    /\ fetchPc' = "loop"
    /\ UNCHANGED <<maxRetries, baseDelayMs, fetchResult, fetchLog, delays>>
    /\ UNCHANGED <<pickVars, decodeVars, captureVars>>

(***************************************************************************)
(* Specifications                                                          *)
(***************************************************************************)
PickNext == PickTimestamps

InitPick == PickInit /\ DecodeIdle /\ CaptureIdle /\ FetchIdle

SpecPick == InitPick /\ [][PickNext]_vars

InitPickScenarios == PickScenarioInit /\ DecodeIdle /\ CaptureIdle /\ FetchIdle

SpecPickScenarios == InitPickScenarios /\ [][PickNext]_vars

InitPickSample == PickSampleInit /\ DecodeIdle /\ CaptureIdle /\ FetchIdle

SpecPickSample == InitPickSample /\ [][PickNext]_vars

DecodeNext == ParseStoryboardSpec

InitDecode == PickIdle /\ DecodeInit /\ CaptureIdle /\ FetchIdle

SpecDecode == InitDecode /\ [][DecodeNext]_vars

CaptureNext == CaptureStart \/ CallFfmpeg \/ FfmpegSettles \/ CaptureReturn

InitCapture == PickIdle /\ DecodeIdle /\ CaptureInit /\ FetchIdle

SpecCapture == InitCapture /\ [][CaptureNext]_vars

CaptureTsNext == CaptureTsStart \/ CallFfmpegTs \/ FfmpegSettlesTs \/ CaptureTsReturn

InitCaptureTs == PickIdle /\ DecodeIdle /\ CaptureTsInit /\ FetchIdle

SpecCaptureTs == InitCaptureTs /\ [][CaptureTsNext]_vars

FetchNext == CallFetch \/ FetchSettles \/ TimerFires

InitFetch == PickIdle /\ DecodeIdle /\ CaptureIdle /\ FetchInit

\* The event loop runs every callback that is ready: a timer that was set
\* fires, and the loop goes on to its next fetch call.  (That a fetch call
\* settles is not assumed.)
SpecFetch ==
    InitFetch /\ [][FetchNext]_vars /\ WF_vars(TimerFires) /\ WF_vars(CallFetch)

\* fetchWithRetry when every fetch call settles, with a response or with a
\* rejection: what a statement over every sequence of fetch outcomes takes
\* as given.
SpecFetchSettling == SpecFetch /\ WF_vars(FetchSettles)

(***************************************************************************)
(* Claims about pickTimestamps (checked under SpecPick)                    *)
(***************************************************************************)
\* C1: the list returned by pickTimestamps has at most maxFrames elements
\* (for every input with maxFrames >= 0).
C1_AtMostMaxFrames ==
    pickPc = "done" => Len(picked) <= maxFrames

C1_Witness ==
    /\ pickPc = "done"
    /\ maxFrames >= 1
    /\ Len(deduped) > maxFrames
    /\ Len(picked) = maxFrames

WellSpaced(list) ==
    \A i, j \in 1..Len(list) :
        i < j => /\ list[i].seconds < list[j].seconds
                 /\ list[j].seconds - list[i].seconds >= 10

\* C2: the returned list is strictly increasing in seconds and no two of its
\* elements are less than 10 seconds apart, whether it is the deduplicated
\* list itself or its even sample.
C2_IncreasingAndSpaced ==
    pickPc = "done" =>
        /\ WellSpaced(picked)
        /\ (Len(deduped) <= maxFrames => picked = deduped)

C2_Witness ==
    /\ pickPc = "done"
    /\ Len(candidates) > Len(deduped)
    /\ Len(deduped) > maxFrames
    /\ Len(picked) >= 2

SomePassYields ==
    \/ chapters # << >>
    \/ \E k \in 1..Len(transcript) : transcript[k].text \in CueTexts
    \/ \E k \in 2..Len(transcript) :
          transcript[k].startSeconds
            - (transcript[k - 1].startSeconds + transcript[k - 1].durationSeconds) > 3
    \/ (IF intervalSeconds >= 10 THEN intervalSeconds ELSE 10) < durationSeconds - 5

\* C10 as stated: with durationSeconds > 0, maxFrames >= 1 and chapters or
\* transcript non-empty the result is non-empty.
C10_Original ==
    (/\ pickPc = "done"
     /\ durationSeconds > 0
     /\ maxFrames >= 1
     /\ (chapters # << >> \/ transcript # << >>))
    => picked # << >>

\* C10 (amended): the result is non-empty exactly when maxFrames >= 1 and
\* some pass yields a candidate: chapters is non-empty, a transcript segment
\* matches a visual cue, two adjacent segments are more than 3 s apart, or
\* the effective interval max(intervalSeconds, 10) is below
\* durationSeconds - 5.
C10_NonEmptyIffSomePass ==
    pickPc = "done" => ((picked # << >>) <=> (maxFrames >= 1 /\ SomePassYields))

C10_Witness ==
    /\ pickPc = "done"
    /\ durationSeconds > 0
    /\ maxFrames >= 1
    /\ chapters = << >>
    /\ transcript # << >>
    /\ ~ ((IF intervalSeconds >= 10 THEN intervalSeconds ELSE 10) < durationSeconds - 5)
    /\ picked # << >>

\* C11 as stated: every candidate generated and every candidate returned by
\* pickTimestamps has seconds >= 0, for every durationSeconds >= 0 and chapters
\* with non-negative startSeconds (chapter candidates included).
C11_Original ==
    pickPc = "done" =>
        /\ \A k \in 1..Len(candidates) : candidates[k].seconds >= 0
        /\ \A k \in 1..Len(picked) : picked[k].seconds >= 0

PriorityOf(relevance) ==
    CASE relevance = "visual_cue" -> 1
      [] relevance = "chapter_start" -> 2
      [] relevance = "topic_transition" -> 3
      [] relevance = "interval" -> 4

Relevances == {"visual_cue", "chapter_start", "topic_transition", "interval"}

ConsistentPriority(c) ==
    /\ c.relevance \in Relevances
    /\ c.priority = PriorityOf(c.relevance)

\* C12: every candidate pickTimestamps generates, keeps or returns carries
\* the priority its relevance determines: visual_cue 1, chapter_start 2,
\* topic_transition 3, interval 4.
C12_PriorityFollowsRelevance ==
    pickPc = "done" =>
        /\ \A k \in 1..Len(candidates) : ConsistentPriority(candidates[k])
        /\ \A k \in 1..Len(deduped) : ConsistentPriority(deduped[k])
        /\ \A k \in 1..Len(picked) : ConsistentPriority(picked[k])

C12_Witness ==
    /\ pickPc = "done"
    /\ { candidates[k].relevance : k \in 1..Len(candidates) } = Relevances
    /\ Cardinality({ picked[k].relevance : k \in 1..Len(picked) }) >= 3

(***************************************************************************)
(* Claims about pickTimestamps (checked under SpecPickScenarios)           *)
(***************************************************************************)
NoChaptersNoTranscript == chapters = << >> /\ transcript = << >> /\ maxFrames >= 1

RequestedOrTen == IF intervalSeconds >= 10 THEN intervalSeconds ELSE 10

\* C14 as stated: with no chapters, no transcript and maxFrames >= 1 the result
\* holds an interval candidate whenever durationSeconds exceeds
\* max(intervalSeconds, 10), and is empty when durationSeconds is shorter.
C14_Original ==
    (pickPc = "done" /\ NoChaptersNoTranscript) =>
        /\ durationSeconds > RequestedOrTen =>
              \E k \in 1..Len(picked) : picked[k].relevance = "interval"
        /\ durationSeconds < RequestedOrTen => picked = << >>

\* C14 (amended): with no chapters, no transcript and maxFrames >= 1 the
\* result is non-empty exactly when durationSeconds - 5 exceeds
\* max(intervalSeconds, 10), every returned candidate is then an interval
\* candidate, and the result is empty otherwise (so also when durationSeconds
\* is shorter than the interval).
C14_IntervalNeedsMargin ==
    (pickPc = "done" /\ NoChaptersNoTranscript) =>
        /\ (picked # << >>) <=> (durationSeconds - 5 > RequestedOrTen)
        /\ \A k \in 1..Len(picked) : picked[k].relevance = "interval"
        /\ durationSeconds < RequestedOrTen => picked = << >>

C14_Witness ==
    /\ pickPc = "done"
    /\ NoChaptersNoTranscript
    /\ durationSeconds - 5 = RequestedOrTen + 1
    /\ Len(picked) = 1
    /\ picked[1].relevance = "interval"
    /\ picked[1].seconds = RequestedOrTen

\* C15 as stated: for a non-empty chapter list the result does not depend on
\* intervalSeconds: calling with any other interval returns the same list.
C15_Original ==
    (pickPc = "done" /\ chapters # << >>) =>
        \A timing \in ScenarioTimings :
            timing[1] = durationSeconds =>
                pickTimestamps(durationSeconds, chapters, maxFrames, timing[2],
                               transcript) = picked

\* duration=630, chapters Intro@0 and Body@300, empty transcript,
\* maxFrames=10, interval=60
DefaultRunScenario ==
    /\ durationSeconds = 630
    /\ chapters = << [title |-> "Intro", startSeconds |-> 0],
                     [title |-> "Body", startSeconds |-> 300] >>
    /\ transcript = << >>
    /\ maxFrames = 10
    /\ intervalSeconds = 60

SecondsOf(list) == [k \in 1..Len(list) |-> list[k].seconds]

TimesOf(list, relevance) ==
    { list[k].seconds : k \in { j \in 1..Len(list) : list[j].relevance = relevance } }

StrictlyIncreasing(list) ==
    \A k \in 1..(Len(list) - 1) : list[k].seconds < list[k + 1].seconds

ScenarioCandidates ==
    /\ Len(candidates) = 12
    /\ TimesOf(candidates, "chapter_start") = {5, 305}
    /\ TimesOf(candidates, "interval") = { 60 * n : n \in 1..10 }

\* C17 as stated: in the scenario above the candidates are chapter candidates
\* at 5 and 305 plus interval candidates at 60, 120, ..., 600; deduplication
\* removes no interval candidate; the result has at most 10 elements and is
\* strictly increasing.
C17_Original ==
    (pickPc = "done" /\ DefaultRunScenario) =>
        /\ ScenarioCandidates
        /\ TimesOf(deduped, "interval") = TimesOf(candidates, "interval")
        /\ Len(picked) <= 10
        /\ StrictlyIncreasing(picked)

\* C17 (amended): in the scenario above the candidates are chapter candidates
\* at 5 and 305 plus interval candidates at 60, 120, ..., 600; deduplication
\* removes exactly one of them, the interval candidate at 300 (5 s from the
\* chapter candidate at 305), leaving 11; the result is the 10 of them before
\* 600, strictly increasing.
C17_DefaultRun ==
    (pickPc = "done" /\ DefaultRunScenario) =>
        /\ ScenarioCandidates
        /\ SecondsOf(deduped) = <<5, 60, 120, 180, 240, 305, 360, 420, 480, 540, 600>>
        /\ SecondsOf(picked) = <<5, 60, 120, 180, 240, 305, 360, 420, 480, 540>>
        /\ Len(picked) <= 10
        /\ StrictlyIncreasing(picked)

C17_Witness ==
    /\ pickPc = "done"
    /\ DefaultRunScenario
    /\ Len(deduped) = 11
    /\ Len(picked) = 10

GapBefore(tr, k) ==
    tr[k].startSeconds - (tr[k - 1].startSeconds + tr[k - 1].durationSeconds)

IsTopicTransition(c) == c.relevance = "topic_transition"

\* C18: the candidates generated hold a topic_transition candidate (priority
\* 3) at a segment's start exactly when the gap to the segment before it is
\* strictly greater than 3, one per such pair; two segments 5 seconds apart
\* give exactly one, at the second segment's start.
C18_TransitionIffGapOverThree ==
    pickPc = "done" =>
        LET trans == SelectSeq(candidates, IsTopicTransition)
            gaps == { k \in 2..Len(transcript) : GapBefore(transcript, k) > 3 }
        IN  /\ Len(trans) = Cardinality(gaps)
            /\ \A j \in 1..Len(trans) : trans[j].priority = 3
            /\ \A k \in 2..Len(transcript) :
                  (k \in gaps) <=> (\E j \in 1..Len(trans) :
                                       trans[j].seconds = transcript[k].startSeconds)
            /\ (Len(transcript) = 2 /\ GapBefore(transcript, 2) = 5)
                  => /\ Len(trans) = 1
                     /\ trans[1].seconds = transcript[2].startSeconds

C18_Witness ==
    /\ pickPc = "done"
    /\ Len(transcript) = 2
    /\ GapBefore(transcript, 2) = 5
    /\ Len(SelectSeq(candidates, IsTopicTransition)) = 1

Generated == { candidates[k] : k \in 1..Len(candidates) }
Survivors == { deduped[k] : k \in 1..Len(deduped) }

Near(a, b) == (IF a.seconds >= b.seconds THEN a.seconds - b.seconds
               ELSE b.seconds - a.seconds) < 10

\* C21 as stated: no candidate survives deduplication while a generated
\* candidate of strictly higher priority (smaller number) within 10 seconds of
\* it has been discarded.
C21_Original ==
    pickPc = "done" =>
        \A s \in Survivors : \A h \in Generated :
            (h.priority < s.priority /\ Near(h, s)) => h \in Survivors

\* C21 (amended): a generated candidate of strictly higher priority within 10
\* seconds of a survivor has been discarded, and only in favour of another
\* survivor within 10 seconds of it whose priority is at least as high as its
\* own; so a candidate survives next to a discarded higher-priority one only
\* when that one lost to a survivor of its own rank or better.
C21_HigherPriorityLostToItsPeer ==
    pickPc = "done" =>
        \A s \in Survivors : \A h \in Generated :
            (h.priority < s.priority /\ Near(h, s)) =>
                /\ h \notin Survivors
                /\ \E k \in Survivors : k.priority <= h.priority /\ Near(k, h)

C21_Witness ==
    /\ pickPc = "done"
    /\ \E s \in Survivors : \E h \in Generated \ Survivors :
          /\ h.priority < s.priority
          /\ Near(h, s)
          /\ \E k \in Survivors : k.priority = h.priority /\ Near(k, h) /\ ~ Near(k, s)

\* C22: every generated candidate that deduplication discards has a kept
\* candidate strictly less than 10 seconds away whose priority number is less
\* than or equal to its own, and with equal priority the kept one is not later
\* in seconds.
C22_DiscardedHasKeeper ==
    pickPc = "done" =>
        \A c \in Generated \ Survivors :
            \E d \in Survivors :
                /\ Near(d, c)
                /\ \/ d.priority < c.priority
                   \/ (d.priority = c.priority /\ d.seconds <= c.seconds)

C22_Witness ==
    /\ pickPc = "done"
    /\ \E c \in Generated \ Survivors : \E d \in Survivors :
          Near(d, c) /\ d.priority = c.priority /\ d.seconds < c.seconds
    /\ \E c \in Generated \ Survivors : \E d \in Survivors :
          Near(d, c) /\ d.priority < c.priority /\ d.seconds > c.seconds

(***************************************************************************)
(* Claims about pickTimestamps (checked under SpecPickSample)              *)
(***************************************************************************)
\* C23 as stated: with count > maxFrames deduplicated candidates (maxFrames
\* >= 1) the result has exactly maxFrames elements, the i-th (0-based) being
\* the deduplicated element at index floor(i*count/maxFrames); with count <=
\* maxFrames the deduplicated list is returned unchanged.
C23_Original ==
    (pickPc = "done" /\ maxFrames >= 1) =>
        LET count == Len(deduped)
        IN  IF count > maxFrames
            THEN /\ Len(picked) = maxFrames
                 /\ \A i \in 0..(maxFrames - 1) :
                       picked[i + 1] = deduped[((i * count) \div maxFrames) + 1]
            ELSE picked = deduped

(***************************************************************************)
(* Claims about captureFrames (checked under SpecCapture)                  *)
(***************************************************************************)
\* C3: captureFrames returns exactly one frame per input candidate, in input
\* order: frame k carries candidate k's timestampSeconds and label, whatever
\* the extraction outcomes and the storyboard spec.
C3_OneFramePerCandidate ==
    /\ capturePc \in {"loop", "awaiting"} => Len(frames) = tsIndex - 1
    /\ capturePc = "done" =>
          /\ Len(frames) = Len(timestamps)
          /\ \A k \in 1..Len(frames) :
                /\ frames[k].timestampSeconds = timestamps[k].seconds
                /\ frames[k].label = timestamps[k].label

C3_Witness ==
    /\ capturePc = "done"
    /\ Len(timestamps) = 2
    /\ timestamps[1] # timestamps[2]
    /\ outcomes[1] = "stored"
    /\ outcomes[2] = "ffmpeg_fails"
    /\ Len(storyboardTiles) > 0
    /\ Len(frames) = 2

\* C4 as stated: when every extraction attempt fails and no storyboard spec is
\* supplied, every returned frame has isFallback = true and all frames have
\* the same imageUrl.
C4_Original ==
    (/\ capturePc = "done"
     /\ storyboardSpec = None
     /\ \A k \in 1..Len(outcomes) : outcomes[k] # "stored")
    => /\ \A k \in 1..Len(frames) : frames[k].isFallback = Some(TRUE)
       /\ \A j, k \in 1..Len(frames) : frames[j].imageUrl = frames[k].imageUrl

\* C5 as stated: every frame returned by captureFrames has a non-empty
\* imageUrl.
C5_Original ==
    capturePc = "done" => \A k \in 1..Len(frames) : frames[k].imageUrl # << >>

Markers(frame) == <<frame.tileRect # None, frame.isFallback = Some(TRUE)>>

\* C6 as stated: frames resolved by different tiers differ in the pair
\* (tileRect present, isFallback true).
C6_Original ==
    capturePc = "done" =>
        \A j, k \in 1..Len(frames) :
            resolvedBy[j] # resolvedBy[k] => Markers(frames[j]) # Markers(frames[k])

\* C7: captureFrames never throws or rejects; a failure inside the extraction
\* attempt, of whatever kind, is a miss: that candidate still gets its frame,
\* from the storyboard tier or the thumbnail tier.
C7_FailureIsAMiss ==
    /\ capturePc # "threw"
    /\ Len(resolvedBy) = Len(frames)
    /\ Len(outcomes) = Len(frames)
    /\ \A k \in 1..Len(frames) :
          outcomes[k] # "stored" => resolvedBy[k] \in {"storyboard", "thumbnail"}

C7_Witness ==
    /\ capturePc = "done"
    /\ Len(frames) = 2
    /\ outcomes[1] = "tool_missing"
    /\ outcomes[2] = "kv_store_fails"
    /\ resolvedBy[1] = "thumbnail"

\* C13: in the returned list tileRect is present exactly on the frames the
\* storyboard branch pushed, and no frame pushed by the extraction branch or
\* the storyboard branch has isFallback = true.
C13_MarkersMatchTier ==
    capturePc = "done" =>
        \A k \in 1..Len(frames) :
            /\ (frames[k].tileRect # None) <=> (resolvedBy[k] = "storyboard")
            /\ resolvedBy[k] \in {"ffmpeg", "storyboard"}
                  => frames[k].isFallback # Some(TRUE)

C13_Witness ==
    /\ capturePc = "done"
    /\ Len(frames) = 2
    /\ resolvedBy = <<"ffmpeg", "storyboard">>
    /\ frames[1].tileRect = None
    /\ frames[2].tileRect # None

ExtractionLocator(k) ==
    <<"https://api.apify.com/v2/key-value-stores/", StoreId, "/records/">>
        \o FrameKey(videoId, timestamps[k].seconds)

\* C20: the tiers are taken in strict order, per candidate.  No frame exists
\* for a candidate while its extraction attempt is pending; a frame comes from
\* the storyboard branch only if that candidate's attempt missed, from the
\* thumbnail branch only if the attempt missed and no tile was found; and when
\* the attempt succeeds the frame carries the extraction locator, also when
\* the tile list is non-empty.
C20_TiersInOrder ==
    /\ capturePc = "awaiting" =>
          /\ Len(outcomes) = tsIndex - 1
          /\ Len(frames) = tsIndex - 1
    /\ \A k \in 1..Len(frames) :
          /\ resolvedBy[k] = "storyboard" =>
                /\ outcomes[k] # "stored"
                /\ findNearestTile(storyboardTiles, timestamps[k].seconds) # None
          /\ resolvedBy[k] = "thumbnail" =>
                /\ outcomes[k] # "stored"
                /\ findNearestTile(storyboardTiles, timestamps[k].seconds) = None
          /\ outcomes[k] = "stored" =>
                /\ resolvedBy[k] = "ffmpeg"
                /\ frames[k].imageUrl = ExtractionLocator(k)

C20_Witness ==
    /\ capturePc = "done"
    /\ Len(storyboardTiles) > 0
    /\ outcomes = <<"no_output_file", "stored">>
    /\ resolvedBy = <<"storyboard", "ffmpeg">>
    /\ frames[2].imageUrl = ExtractionLocator(2)
    /\ frames[1].imageUrl # ExtractionLocator(1)

\* Distance of tile j of the decoded tile set from candidate k, in ms.
TileDistance(j, k) == Abs(storyboardTiles[j].timestampMs - timestamps[k].seconds * 1000)

\* Tile j is the one frame k shows: its sheet and its rectangle.
ShowsTile(k, j) ==
    /\ frames[k].imageUrl = storyboardTiles[j].url
    /\ frames[k].tileRect = Some(storyboardTiles[j].tileRect)

\* C24: a frame pushed by the storyboard branch shows a tile at minimal
\* distance from the candidate's time, the one with the smallest index among
\* those at that distance; with an empty tile set no frame comes from the
\* storyboard branch.
C24_NearestTileFirstWins ==
    \A k \in 1..Len(frames) :
        resolvedBy[k] = "storyboard" =>
            /\ Len(storyboardTiles) > 0
            /\ \E j \in 1..Len(storyboardTiles) :
                  /\ ShowsTile(k, j)
                  /\ \A i \in 1..Len(storyboardTiles) :
                        /\ TileDistance(j, k) <= TileDistance(i, k)
                        /\ TileDistance(i, k) = TileDistance(j, k) => j <= i

\* The candidate at 3 s lies midway between the tiles at 2 s and 4 s and gets
\* the tile at 2 s; the candidate at 20 s gets the last tile.
C24_Witness ==
    /\ capturePc = "done"
    /\ Len(frames) = 2
    /\ resolvedBy = <<"storyboard", "storyboard">>
    /\ Len(storyboardTiles) = 4
    /\ timestamps[1].seconds = 3
    /\ TileDistance(2, 1) = TileDistance(3, 1)
    /\ ShowsTile(1, 2)
    /\ ~ShowsTile(1, 3)
    /\ timestamps[2].seconds = 20
    /\ ShowsTile(2, 4)

\* The decode happens in this step.
Decodes == decodeCount' # decodeCount

\* C25: within one call the spec is decoded at most once, and only in the step
\* that enters captureFrames, when no candidate has been attempted; from the
\* loop on the tile sequence stays what it was, so every lookup reads the
\* same tiles.
C25_DecodedOnceReadOnly ==
    /\ [](decodeCount <= 1)
    /\ [][/\ Decodes => (capturePc = "call" /\ outcomes = << >> /\ inFlight = 0)
          /\ capturePc # "call" => storyboardTiles' = storyboardTiles]_vars

C25_Witness ==
    /\ capturePc = "done"
    /\ decodeCount = 1
    /\ Len(storyboardTiles) = 4
    /\ Len(frames) = 2
    /\ resolvedBy = <<"storyboard", "storyboard">>
    /\ timestamps[1].seconds = 12
    /\ timestamps[2].seconds = 3

\* C26: candidates are resolved one at a time.  At most one extraction
\* attempt is in flight; while the attempt of candidate k is in flight the
\* frames of candidates 1..k-1, and no others, are in the output; and no
\* attempt is in flight in any other position of the loop.
C26_OneAttemptAtATime ==
    /\ inFlight <= 1
    /\ capturePc = "awaiting" =>
          /\ inFlight = 1
          /\ Len(frames) = tsIndex - 1
    /\ capturePc # "awaiting" => inFlight = 0
    /\ capturePc = "loop" => Len(frames) = tsIndex - 1

\* The attempt of the second candidate is in flight and the first frame is in
\* the output.
C26_Witness ==
    /\ capturePc = "awaiting"
    /\ tsIndex = 2
    /\ inFlight = 1
    /\ Len(frames) = 1
    /\ frames[1].timestampSeconds = timestamps[1].seconds

\* C27 as stated: the frame of a candidate is determined by the candidate,
\* the videoId, the storyboard spec and the candidate's own extraction
\* outcome; so within one call, where videoId and spec are fixed, the same
\* candidate with the same outcome at two positions gets the same frame.
C27_Original ==
    \A j, k \in 1..Len(frames) :
        (timestamps[j] = timestamps[k] /\ outcomes[j] = outcomes[k])
            => frames[j] = frames[k]

\* C28: every frame has the timestampSeconds, label, relevance,
\* transcriptContext and chapterTitle of its candidate, whichever branch pushed
\* it; two frames of the same candidate differ at most in imageUrl, tileRect
\* and isFallback.
C28_CandidateFieldsCarried ==
    /\ \A k \in 1..Len(frames) :
          /\ frames[k].timestampSeconds = timestamps[k].seconds
          /\ frames[k].label = timestamps[k].label
          /\ frames[k].relevance = timestamps[k].relevance
          /\ frames[k].transcriptContext = timestamps[k].transcriptContext
          /\ frames[k].chapterTitle = timestamps[k].chapterTitle
    /\ \A j, k \in 1..Len(frames) :
          timestamps[j] = timestamps[k] =>
              \A f \in DOMAIN frames[j] \ {"imageUrl", "tileRect", "isFallback"} :
                  frames[j][f] = frames[k][f]

\* The same candidate, with a transcript context and a chapter title, resolved
\* by the extraction and then by the storyboard.
C28_Witness ==
    /\ capturePc = "done"
    /\ Len(frames) = 2
    /\ timestamps[1] = timestamps[2]
    /\ resolvedBy = <<"ffmpeg", "storyboard">>
    /\ frames[1].transcriptContext # None
    /\ frames[1].chapterTitle # None
    /\ frames[1].imageUrl # frames[2].imageUrl

(***************************************************************************)
(* Claims about parseStoryboardSpec (checked under SpecDecode)             *)
(***************************************************************************)
\* Number of occurrences of symbol c in str[from..].
CountOf(str, c, from) == Cardinality({ i \in from..Len(str) : str[i] = c })

\* Position of the last level delimiter, 0 when there is none.
LastHash(str) ==
    IF \E i \in 1..Len(str) : str[i] = "#"
    THEN CHOOSE i \in 1..Len(str) :
            str[i] = "#" /\ \A j \in (i + 1)..Len(str) : str[j] # "#"
    ELSE 0

\* C8: parseStoryboardSpec is total: every call returns a list of tiles (it
\* never throws), and the list is empty for the empty string, for a spec
\* without level delimiter and for a spec whose last level has fewer than 8
\* pipe-delimited fields.
C8_EmptyOnMalformed ==
    decodePc = "done" =>
        /\ \A k \in 1..Len(tiles) :
              DOMAIN tiles[k] = {"url", "tileRect", "timestampMs"}
        /\ (\/ spec = << >>
            \/ LastHash(spec) = 0
            \/ CountOf(spec, "|", LastHash(spec) + 1) + 1 < 8)
           => tiles = << >>

C8_Witness ==
    /\ decodePc = "done"
    /\ LastHash(spec) > 0
    /\ CountOf(spec, "|", LastHash(spec) + 1) + 1 = 7
    /\ tiles = << >>

\* The six numeric fields of the last level, as parseInt reads them.
LastLevelNumbers(str) ==
    LET parts == Split(SubSeq(str, LastHash(str) + 1, Len(str)), "|")
    IN  [k \in 1..6 |-> parseInt(Field(parts, k))]

NotStrictlyPositive(n) == n.isNaN \/ n.val <= 0

\* C9 as stated: no tile is returned when one of tileWidth, tileHeight,
\* tileCount, columns, rows, intervalMs of the last level is zero, negative
\* or non-numeric; every tile has timestampMs >= 0, w > 0, h > 0, x >= 0 and
\* y >= 0.
C9_Original ==
    decodePc = "done" =>
        /\ (\E k \in 1..6 : NotStrictlyPositive(LastLevelNumbers(spec)[k]))
              => tiles = << >>
        /\ \A k \in 1..Len(tiles) :
              /\ tiles[k].timestampMs >= 0
              /\ tiles[k].tileRect.w > 0 /\ tiles[k].tileRect.h > 0
              /\ tiles[k].tileRect.x >= 0 /\ tiles[k].tileRect.y >= 0

ValidLastLevel ==
    /\ LastHash(spec) > 0
    /\ CountOf(spec, "|", LastHash(spec) + 1) + 1 >= 8
    /\ \A k \in 1..6 : ~ NotStrictlyPositive(LastLevelNumbers(spec)[k])

\* C19: for a valid last level (eight or more fields, the six numbers
\* strictly positive) parseStoryboardSpec returns exactly tileCount tiles and
\* tile i (0-based) has timestampMs = i*intervalMs and tileRect
\* {x: (p mod columns)*tileWidth, y: floor(p/columns)*tileHeight, w: tileWidth,
\* h: tileHeight} with p = i mod (columns*rows); for columns=2, rows=2,
\* tileCount=4, intervalMs=1000 the rects are at (0,0), (w,0), (0,h), (w,h)
\* and the timestamps are 0, 1000, 2000, 3000.
C19_TileGeometry ==
    (decodePc = "done" /\ ValidLastLevel) =>
        LET n == LastLevelNumbers(spec)
            width == n[1].val
            height == n[2].val
            count == n[3].val
            cols == n[4].val
            rows == n[5].val
            intervalMs == n[6].val
        IN  /\ Len(tiles) = count
            /\ \A i \in 0..(count - 1) :
                  LET p == i % (cols * rows)
                  IN  /\ tiles[i + 1].timestampMs = i * intervalMs
                      /\ tiles[i + 1].tileRect =
                            [x |-> (p % cols) * width, y |-> (p \div cols) * height,
                             w |-> width, h |-> height]
            /\ (cols = 2 /\ rows = 2 /\ count = 4 /\ intervalMs = 1000) =>
                  /\ [k \in 1..4 |-> <<tiles[k].tileRect.x, tiles[k].tileRect.y>>]
                        = << <<0, 0>>, <<width, 0>>, <<0, height>>, <<width, height>> >>
                  /\ [k \in 1..4 |-> tiles[k].timestampMs] = <<0, 1000, 2000, 3000>>

C19_Witness ==
    /\ decodePc = "done"
    /\ ValidLastLevel
    /\ LastLevelNumbers(spec)[4].val = 2
    /\ LastLevelNumbers(spec)[5].val = 2
    /\ LastLevelNumbers(spec)[3].val = 4
    /\ LastLevelNumbers(spec)[6].val = 1000
    /\ Len(tiles) = 4
    /\ tiles[4].timestampMs = 3000

\* The text of the last level, and field k (0-based) of it.
LastLevel(str) == SubSeq(str, LastHash(str) + 1, Len(str))

LastLevelField(str, k) == Field(Split(LastLevel(str), "|"), k)

\* The URL field of the first level: the text before the first | or #.
FirstLevelUrl(str) ==
    LET stops == { i \in 1..Len(str) : str[i] \in {"|", "#"} }
    IN  IF stops = {} THEN str
        ELSE SubSeq(str, 1, (CHOOSE i \in stops : \A j \in stops : i <= j) - 1)

\* The text of the first level.
FirstLevel(str) ==
    LET hashes == { i \in 1..Len(str) : str[i] = "#" }
    IN  IF hashes = {} THEN str
        ELSE SubSeq(str, 1, (CHOOSE i \in hashes : \A j \in hashes : i <= j) - 1)

\* The spec with everything dropped but the first level's URL field and the
\* last level.
FirstUrlAndLastLevel(str) == FirstLevelUrl(str) \o <<"#">> \o LastLevel(str)

\* C29: only the last level is decoded.  For a spec of two or more levels the
\* tiles are those of the spec reduced to the first level's URL field and
\* the last level, so no other field of an earlier level has any effect; and
\* for a valid last level every tile's URL is built from the last level's URL
\* field when that is not empty and from the first level's URL field when
\* it is, with the last level's signature.
C29_OnlyLastLevelDecoded ==
    (decodePc = "done" /\ LastHash(spec) > 0) =>
        /\ tiles = parseStoryboardSpec(FirstUrlAndLastLevel(spec))
        /\ ValidLastLevel =>
              LET n == LastLevelNumbers(spec)
                  template == IF LastLevelField(spec, 0) # << >>
                              THEN LastLevelField(spec, 0)
                              ELSE FirstLevelUrl(spec)
              IN  \A i \in 0..(Len(tiles) - 1) :
                      tiles[i + 1].url =
                          TileUrl(template, i \div (n[4].val * n[5].val),
                                  LastLevelField(spec, 7))

\* The first level is a full record with its own numbers and signature, the
\* last level's URL field and signature are empty: four tiles (not the first
\* level's nine) on the first level's URL, with no signature.
C29_Witness ==
    /\ decodePc = "done"
    /\ LastHash(spec) > 0
    /\ CountOf(FirstLevel(spec), "|", 1) = 7
    /\ FirstLevelUrl(spec) = <<"b", "$", "M">>
    /\ LastLevelField(spec, 0) = << >>
    /\ LastLevelField(spec, 7) = << >>
    /\ ValidLastLevel
    /\ Len(tiles) = 4
    /\ tiles[1].url = <<"b", "0">>

(***************************************************************************)
(* Claims about fetchWithRetry (checked under SpecFetch)                   *)
(***************************************************************************)
\* A fetch outcome the documentation names as a reason to retry.
RetryCause(o) == o.kind = "error" \/ o.status = 429 \/ o.status >= 500

LastFetch == fetchLog[Len(fetchLog)]

RetriesOnlyOnCause ==
    \* every outcome that was followed by a further attempt was a retry cause,
    \* and was followed by exactly one delay
    /\ \A k \in 1..(Len(fetchLog) - 1) : RetryCause(fetchLog[k])
    /\ fetchPc \in {"loop", "awaiting", "delay"} =>
          /\ \A k \in 1..Len(fetchLog) : RetryCause(fetchLog[k])
          /\ Len(delays) = Len(fetchLog)
    \* a response that is no retry cause ends the call at once
    /\ (fetchLog # << >> /\ ~ RetryCause(LastFetch)) =>
          /\ fetchPc = "returned"
          /\ fetchResult = Some([kind |-> "return", value |-> LastFetch])
    /\ fetchPc \in {"returned", "threw"} => Len(delays) = Len(fetchLog) - 1
    \* a retry cause ends the call only at the last allowed attempt
    /\ (fetchPc \in {"returned", "threw"} /\ RetryCause(LastFetch)) =>
          Len(fetchLog) = maxRetries + 1

\* C16: fetchWithRetry retries only on a 429 or 5xx response or a rejected
\* fetch.  A response that is ok, 403 or 404 is returned after that attempt
\* with no delay and no further fetch; a 429 or 5xx response received before
\* the last allowed attempt is not returned: the delay is waited and another
\* fetch call follows.
C16_RetryOnlyOn429Or5xx ==
    /\ []RetriesOnlyOnCause
    /\ (fetchPc = "delay") ~> (fetchPc = "awaiting")

C16_Witness ==
    /\ fetchPc = "returned"
    /\ Len(fetchLog) = 3
    /\ fetchLog[1].status = 429
    /\ fetchLog[2].status = 503
    /\ fetchLog[3].status = 404
    /\ Len(delays) = 2
    /\ maxRetries = 3

(***************************************************************************)
(* Claims about fetchWithRetry when every fetch settles                    *)
(* (checked under SpecFetchSettling)                                       *)
(***************************************************************************)
Terminated == fetchPc \in {"returned", "threw"}

BoundedRetries ==
    \* at most maxRetries + 1 fetch attempts, at most maxRetries delays
    /\ Len(fetchLog) <= maxRetries + 1
    /\ Len(delays) <= maxRetries
    \* the statement after the loop is not reached
    /\ ~ LoopTestFails
    \* the delay before retry number k
    /\ \A k \in 1..Len(delays) : delays[k] = baseDelayMs * 2^(k - 1)
    \* the call ends with the last response returned or the last error thrown
    /\ fetchPc = "returned" =>
          /\ LastFetch.kind = "response"
          /\ fetchResult = Some([kind |-> "return", value |-> LastFetch])
    /\ fetchPc = "threw" =>
          /\ LastFetch.kind = "error"
          /\ fetchResult = Some([kind |-> "throw", value |-> LastFetch])
    /\ ~ Terminated => fetchResult = None

\* C30: for every maxRetries and every sequence of fetch outcomes
\* fetchWithRetry makes at most maxRetries + 1 fetch attempts and then ends,
\* returning the last response or rethrowing the last fetch error; the throw
\* after the loop is never reached; the delay before retry k is
\* baseDelayMs * 2^(k-1).
C30_BoundedRetriesThenEnds ==
    /\ []BoundedRetries
    /\ <>Terminated

\* All retries used up on rejected fetches: four attempts, three delays, the
\* last error rethrown.
C30_Witness ==
    /\ fetchPc = "threw"
    /\ maxRetries = 3
    /\ baseDelayMs = 1000
    /\ Len(fetchLog) = 4
    /\ \A k \in 1..4 : fetchLog[k].kind = "error"
    /\ delays = <<1000, 2000, 4000>>

====
